---- MODULE Spec2Model ----
(***************************************************************************)
(* The concurrent link crawler of au_link_checker.py: the dispatcher loop  *)
(* of main(), the worker tasks run by the ThreadPoolExecutor, the shared   *)
(* module-level state (checked_links, STOP_EVENT, results_queue,           *)
(* url_paths) and the path computation of main().                          *)
(*                                                                         *)
(* A string is a sequence of one-character strings.  A URL is a string.    *)
(***************************************************************************)
EXTENDS Integers, Sequences, FiniteSets, TLC

----------------------------------------------------------------------------
(* Bounds of the model                                                     *)

\* Threads of the pool.  The source builds ThreadPoolExecutor(max_workers=20);
\* the model runs the same pool with fewer threads.
max_workers == 2
\* Largest --max-urls value tried (None is always tried).
MaxCap == 2
\* Length of an ordinary URL of the modelled sites.
UrlLen == 100
\* Length of the over-long start URL.
LongLen == 256
\* Most segments a path has when a link is still added to it, where the
\* path computation is run on its own.
MaxSegments == 3
\* Calls of main() made one after the other in the process.
MaxCrawls == 2

----------------------------------------------------------------------------
(* Program constants                                                       *)

MAX_PATH_LENGTH == 255
MAX_RETRIES == 2
\* Python's None, for a status that is not a number and for an absent cap.
None == -1

----------------------------------------------------------------------------
(* Strings                                                                 *)

Rep(c, n) == [i \in 1..n |-> c]
\* F(v), with v evaluated once, before F uses it.
Bind(v, F(_)) == CHOOSE r \in {F(x) : x \in {v}} : TRUE
Take(s, n) == SubSeq(s, 1, IF n < Len(s) THEN n ELSE Len(s))

\* s.split(sep): the pieces of s between the non-overlapping occurrences of
\* sep, scanned left to right.
Occurrences(s, sep) ==
    {i \in 1..(Len(s) - Len(sep) + 1) :
        s[i] = sep[1] /\ SubSeq(s, i, i + Len(sep) - 1) = sep}
\* sub in s
Contains(s, sub) == sub = <<>> \/ Occurrences(s, sub) # {}
RECURSIVE SplitFrom(_, _, _, _)
SplitFrom(s, sep, occ, start) ==
    LET later == {i \in occ : i >= start}
        i == CHOOSE j \in later : \A k \in later : j <= k
    IN  IF later = {}
        THEN <<SubSeq(s, start, Len(s))>>
        ELSE <<SubSeq(s, start, i - 1)>>
             \o SplitFrom(s, sep, occ, i + Len(sep))
Split(s, sep) ==
    Bind(Occurrences(s, sep), LAMBDA occ : SplitFrom(s, sep, occ, 1))

\* s.strip(): s without its leading and trailing blanks.
RECURSIVE Strip(_)
Strip(s) ==
    IF s = <<>> THEN s
    ELSE IF Head(s) = " " THEN Strip(Tail(s))
    ELSE IF s[Len(s)] = " " THEN Strip(SubSeq(s, 1, Len(s) - 1))
    ELSE s

Arrow == <<" ", "-", ">", " ">>
BareArrow == <<"-", ">">>
Dots == <<".", ".", ".">>
ArrowDotsArrow == Arrow \o Dots \o Arrow

----------------------------------------------------------------------------
(* Path computation of the dispatcher                                      *)

\* The path given to the task of `link`, found on the page whose task ran
\* with `path`.
\* (variant: no shortening)
ExtendPath_Concat(path, link) == path \o Arrow \o link
ExtendPath(path, link) ==
    Bind(path \o Arrow \o link, LAMBDA new_path_full :
      IF Len(new_path_full) > MAX_PATH_LENGTH
      THEN Bind(Split(new_path_full, Arrow), LAMBDA parts :
             LET start_part == parts[1]
                 end_part == parts[Len(parts)]
                 available_for_end == MAX_PATH_LENGTH - (Len(start_part) + 12)
             IN  IF Len(parts) > 2
                 THEN IF /\ available_for_end < Len(end_part)
                         /\ available_for_end > 0
                      THEN start_part \o ArrowDotsArrow
                           \o Take(end_part, available_for_end)
                      ELSE IF available_for_end >= Len(end_part)
                           THEN start_part \o ArrowDotsArrow \o end_part
                           ELSE Take(new_path_full, MAX_PATH_LENGTH - 3) \o Dots
                 ELSE Take(new_path_full, MAX_PATH_LENGTH - 3) \o Dots)
      ELSE new_path_full)

----------------------------------------------------------------------------
(* The sites crawled                                                       *)

\* "kmart.com.au" and ["jobs.", "careers", "wcsstore", "inactive"]
Domain == <<"k", "m", "a", "r", "t", ".", "c", "o", "m", ".", "a", "u">>
Exclusions ==
    {<<"j", "o", "b", "s", ".">>,
     <<"c", "a", "r", "e", "e", "r", "s">>,
     <<"w", "c", "s", "s", "t", "o", "r", "e">>,
     <<"i", "n", "a", "c", "t", "i", "v", "e">>}

\* The pages of the site: URLs of the domain, n characters long.
Page(c, n) == Domain \o <<"/">> \o Rep(c, n - Len(Domain) - 1)
A == Page("a", UrlLen)
B == Page("b", UrlLen)
C == Page("c", UrlLen)
D == Page("d", UrlLen)
L == Page("l", LongLen)
URLs == {A, B, C, D, L}
\* Other URLs that pages of the site link to: a URL of another domain, a
\* URL of a host of the domain named jobs, and URLs of the domain with
\* "careers", "wcsstore" or "inactive" in their path.
Elsewhere == Rep("x", UrlLen)
JobsHost == <<"j", "o", "b", "s", ".">> \o Page("j", UrlLen - 5)
NonContent ==
    {Domain \o <<"/">> \o x \o Rep("n", UrlLen - Len(Domain) - 1 - Len(x)) :
        x \in Exclusions \ {<<"j", "o", "b", "s", ".">>}}
Hrefs == URLs \cup {Elsewhere, JobsHost} \cup NonContent

Graphs == {"cycle", "diamond", "fan", "long"}

\* The URLs that the a tags of the page of u give (href joined to the URL
\* of the page).
PageHrefs(graph, u) ==
    CASE graph = "cycle" ->
             (IF u = A THEN {B, JobsHost}
              ELSE IF u = B THEN {A, Elsewhere} ELSE {})
      [] graph = "diamond" ->
             (IF u = A THEN {B, C}
              ELSE IF u \in {B, C} THEN {D}
              ELSE {})
      [] graph = "fan" ->
             (IF u = A THEN {B, C, D, Elsewhere, JobsHost} \cup NonContent
              ELSE {})
      [] graph = "long" ->
             (IF u = L THEN {A} ELSE {})

\* if "kmart.com.au" in full_url and not any(x in full_url for x in [...])
\* (variant: the exclusion list ignored)
Passes_DomainOnly(full_url) == Contains(full_url, Domain)
Passes(full_url) ==
    /\ Contains(full_url, Domain)
    /\ ~\E x \in Exclusions : Contains(full_url, x)

\* The links the Link Extractor keeps from each page, computed once.
Kept ==
    [graph \in Graphs |->
        [u \in Hrefs |-> {h \in PageHrefs(graph, u) : Passes(h)}]]
\* The links the Link Extractor finds on the page of u (after its filter).
PageLinks(graph, u) == Kept[graph][u]

\* The URLs written in full in the markup of the page of u.
PageText(graph, u) ==
    IF graph = "diamond" THEN PageLinks(graph, u) \ {C} ELSE PageLinks(graph, u)

GraphStart(graph) == IF graph = "long" THEN L ELSE A

\* Every URL that some chain of links joins to the start URL.
RECURSIVE Closure(_, _)
Closure(graph, S) ==
    LET T == S \cup UNION {PageLinks(graph, u) : u \in S}
    IN  IF T = S THEN S ELSE Closure(graph, T)
GraphPages(graph) == Closure(graph, {GraphStart(graph)})

\* How the page of a URL answers:
\*   "ok"      status 200, links extracted
\*   "badhtml" status 200, link extraction fails
\*   "http404" status 404
\*   "neterr"  the GET raises a requests.RequestException
\*   "crash"   the GET raises another exception
Kinds == {"ok", "badhtml", "http404", "neterr", "crash"}

\* The sites crawled: a graph with at most one page that does not answer
\* "ok", among the pages of the graph where a fault is tried (in the
\* diamond C is the mirror image of B).
FaultPages(graph) ==
    CASE graph = "fan" -> {}
      [] graph = "diamond" -> {A, B, D}
      [] OTHER -> GraphPages(graph)
Sites ==
    {s \in [graph : Graphs, kind : [URLs -> Kinds]] :
        /\ \A u \in URLs \ FaultPages(s.graph) : s.kind[u] = "ok"
        /\ Cardinality({u \in URLs : s.kind[u] # "ok"}) <= 1}

----------------------------------------------------------------------------
(* State                                                                   *)

VARIABLES
    site,             \* the web site (the environment of the crawl)
    start_url,        \* main's argument
    max_urls,         \* main's argument, None or a number
    STOP_EVENT,       \* threading.Event: set or not
    checked_links,    \* set of URLs
    url_paths,        \* dict URL -> path
    results_queue,    \* queue.Queue of result records
    futures,          \* the tasks submitted to the executor, in order
    futures_to_urls,  \* main's dict future -> URL
    pc,               \* position of main
    done,             \* main: the futures wait() returned, not yet handled
    future,           \* main: the future being handled (0: none)
    new_links,        \* main: links of `future` not yet handled
    results,          \* main: the drained records
    parent_path,      \* the path computation run on its own: `path`,
    child_url,        \*   `link`
    child_path,       \*   and `new_path` (<<>>: not computed yet)
    fetch_log,        \* check_link run on its own: the answers to the
                      \*   attempts of its GET, in order
    fetch_return,     \*   and <<the value returned>> (<<>>: not returned)
    reports,          \* the records reported by the calls of main() that
                      \*   have returned, in order
    threads           \* the requests of worker() run on its own: for each
                      \*   thread of the pool, where it is in worker() and
                      \*   what it has done in this call, in order

vars == <<site, start_url, max_urls, STOP_EVENT, checked_links, url_paths,
          results_queue, futures, futures_to_urls, pc, done, future,
          new_links, results, parent_path, child_url, child_path,
          fetch_log, fetch_return, reports, threads>>

env == <<site, start_url, max_urls>>
dispatcher_locals == <<done, future, new_links, results>>
path_locals == <<parent_path, child_url, child_path>>
fetcher_locals == <<fetch_log, fetch_return>>

----------------------------------------------------------------------------
(* Page Fetcher, Link Extractor, visibility check                          *)

\* check_link(url) returns a status code or None; Raises(url) when the GET
\* raises an exception that is no requests.RequestException.
\* (variant: every exception of the GET caught, as RequestException is)
Raises_Never(url) == FALSE
Raises(url) == site.kind[url] = "crash"
\* (variant: a failed GET reported as a success)
check_link_Always200(url) == 200
check_link(url) ==
    CASE site.kind[url] \in {"ok", "badhtml"} -> 200
      [] site.kind[url] = "http404" -> 404
      [] OTHER -> None

\* get_links(url): the filtered links of the page, none when the request or
\* the parsing fails.
\* (variant: the links of the page whatever the parsing gives)
get_links_Unguarded(url) == PageLinks(site.graph, url)
get_links(url) ==
    IF site.kind[url] = "ok" THEN PageLinks(site.graph, url) ELSE {}

\* verify_link_in_ui(path, target_url)
\* (variant: the answer "Yes" whatever the request gives)
verify_link_in_ui_Yes(path, target_url) == "Yes"
verify_link_in_ui(path, target_url) ==
    Bind(Split(path, BareArrow), LAMBDA raw :
      LET parent_url == Strip(raw[Len(raw) - 1])
      IN  IF Len(raw) < 2 THEN "N/A"
          ELSE IF /\ parent_url \in URLs
                  /\ site.kind[parent_url] \in {"ok", "badhtml"}
                  /\ target_url \in PageText(site.graph, parent_url)
               THEN "Yes"
               ELSE "No")

----------------------------------------------------------------------------
(* The executor                                                            *)

\* A task: state is PENDING, RUNNING, FINISHED or CANCELLED; at is the
\* line of worker() the task is at, or the line it returned from.
NewFuture(url, path) ==
    [url |-> url, path |-> path, state |-> "PENDING", at |-> "queued",
     status |-> None, links |-> {}]

\* executor.submit(worker, url, path)
Submit(fs, url, path) == Append(fs, NewFuture(url, path))

Running == {f \in DOMAIN futures : futures[f].state = "RUNNING"}
Pending == {f \in DOMAIN futures : futures[f].state = "PENDING"}

\* ThreadPoolExecutor(max_workers=...): a thread of the pool is free.
\* (variant: a thread started for every task)
PoolHasFreeThread_Always == TRUE
PoolHasFreeThread == Cardinality(Running) < max_workers

\* A free thread takes the oldest queued task.
PoolStart(f) ==
    /\ f \in Pending
    /\ \A g \in Pending : f <= g
    /\ PoolHasFreeThread
    /\ futures' = [futures EXCEPT ![f].state = "RUNNING", ![f].at = "stop_check"]
    /\ UNCHANGED <<env, path_locals, fetcher_locals, reports, threads,
                   STOP_EVENT, checked_links, url_paths, results_queue,
                   futures_to_urls, pc, dispatcher_locals>>

Return(f, at, links) ==
    futures' = [futures EXCEPT ![f].state = "FINISHED", ![f].at = at,
                               ![f].links = links]

----------------------------------------------------------------------------
(* worker(url, path)                                                       *)

\* if STOP_EVENT.is_set(): return [], path
\* (variant: the test left out)
StopSeenAtStart_Never == FALSE
StopSeenAtStart == STOP_EVENT
WorkerStopCheck(f) ==
    /\ f \in Running /\ futures[f].at = "stop_check"
    /\ IF StopSeenAtStart
       THEN Return(f, "return_98", {})
       ELSE futures' = [futures EXCEPT ![f].at = "claim"]
    /\ UNCHANGED <<env, path_locals, fetcher_locals, reports, threads,
                   STOP_EVENT, checked_links, url_paths, results_queue,
                   futures_to_urls, pc, dispatcher_locals>>

\* with checked_links_lock: the test and the insertion are one step.
\* (variant: the membership test left out)
WorkerSeesChecked_Never(url) == FALSE
WorkerSeesChecked(url) == url \in checked_links
WorkerClaim(f) ==
    /\ f \in Running /\ futures[f].at = "claim"
    /\ IF WorkerSeesChecked(futures[f].url)
       THEN /\ Return(f, "return_101", {})
            /\ UNCHANGED checked_links
       ELSE /\ checked_links' = checked_links \cup {futures[f].url}
            /\ futures' = [futures EXCEPT ![f].at = "check"]
    /\ UNCHANGED <<env, path_locals, fetcher_locals, reports, threads,
                   STOP_EVENT, url_paths, results_queue,
                   futures_to_urls, pc, dispatcher_locals>>

\* The record put on results_queue; its Timestamp, the wall-clock time of
\* the put, is not modelled.
\* (variant: the URL written in place of the path)
ResultRecord_PathIsUrl(url, status, path, visible) ==
    [URL |-> url, Status |-> status, Path |-> url, Visible |-> visible]
ResultRecord(url, status, path, visible) ==
    [URL |-> url, Status |-> status, Path |-> path, Visible |-> visible]

\* results_queue.put(item)
\* (variant: the item lost)
put_Lost(queue, item) == queue
put(queue, item) == Append(queue, item)

\* url_paths[url] = path; check_link; verify_link_in_ui; results_queue.put
WorkerCheck(f) ==
    LET url == futures[f].url
        path == futures[f].path
    IN  /\ f \in Running /\ futures[f].at = "check"
        /\ url_paths' = [u \in DOMAIN url_paths \cup {url} |->
                            IF u = url THEN path ELSE url_paths[u]]
        /\ IF Raises(url)
           THEN /\ futures' = [futures EXCEPT ![f].state = "FINISHED",
                                              ![f].at = "raise_106"]
                /\ UNCHANGED results_queue
           ELSE /\ results_queue' =
                       put(results_queue,
                              ResultRecord(url, check_link(url), path,
                                           verify_link_in_ui(path, url)))
                /\ futures' = [futures EXCEPT ![f].at = "links",
                                              ![f].status = check_link(url)]
        /\ UNCHANGED <<env, path_locals, fetcher_locals, reports, threads,
                   STOP_EVENT, checked_links, futures_to_urls, pc,
                       dispatcher_locals>>

\* if status == 200 and not STOP_EVENT.is_set(): return get_links(url), path
\* (variant: the status test inverted)
ExtractsLinks_Inverted(status) == status # 200 /\ ~STOP_EVENT
ExtractsLinks(status) == status = 200 /\ ~STOP_EVENT
WorkerLinks(f) ==
    /\ f \in Running /\ futures[f].at = "links"
    /\ IF ExtractsLinks(futures[f].status)
       THEN Return(f, "return_119", get_links(futures[f].url))
       ELSE Return(f, "return_120", {})
    /\ UNCHANGED <<env, path_locals, fetcher_locals, reports, threads,
                   STOP_EVENT, checked_links, url_paths, results_queue,
                   futures_to_urls, pc, dispatcher_locals>>

----------------------------------------------------------------------------
(* main(start_url, max_urls)                                               *)

With(f2u, f, url) == [g \in DOMAIN f2u \cup {f} |-> IF g = f THEN url ELSE f2u[g]]

\* future = executor.submit(worker, start_url, start_url)
MainSubmitRoot ==
    /\ pc = "submit_root"
    /\ futures' = Submit(futures, start_url, start_url)
    /\ futures_to_urls' = With(futures_to_urls, Len(futures) + 1, start_url)
    /\ pc' = "while"
    /\ UNCHANGED <<env, path_locals, fetcher_locals, reports, threads,
                   STOP_EVENT, checked_links, url_paths, results_queue,
                   dispatcher_locals>>

\* while futures_to_urls: done, _ = wait(futures_to_urls, timeout=1, ...)
\* wait returns the futures that are over, none when the timeout elapses.
\* (variant: a task that raised is never reported as over)
Completed_NotRaised(f2u) ==
    {f \in DOMAIN f2u : futures[f].state \in {"FINISHED", "CANCELLED"}
                        /\ futures[f].at # "raise_106"}
Completed(f2u) ==
    {f \in DOMAIN f2u : futures[f].state \in {"FINISHED", "CANCELLED"}}
MainWait ==
    /\ pc = "while"
    /\ IF futures_to_urls = <<>>
       THEN pc' = "shutdown" /\ UNCHANGED done
       ELSE pc' = "for_done" /\ done' = Completed(futures_to_urls)
    /\ UNCHANGED <<env, path_locals, fetcher_locals, reports, threads,
                   STOP_EVENT, checked_links, url_paths, results_queue,
                   futures, futures_to_urls, future, new_links, results>>

\* del futures_to_urls[future], which ends the handling of `future`
Without(f2u, f) == [g \in DOMAIN f2u \ {f} |-> f2u[g]]
MainDel(f2u, f) ==
    /\ futures_to_urls' = Without(f2u, f)
    /\ future' = 0
    /\ pc' = "for_done"

\* for future in done: new_links, path = future.result()
\* A task that raised makes result() raise: the except clause logs it.  With
\* no link to handle the loop body is over at once.
MainResult ==
    /\ pc = "for_done" /\ done # {}
    /\ \E f \in done :
        LET links == IF futures[f].at = "raise_106" THEN {} ELSE futures[f].links
        IN  /\ done' = done \ {f}
            /\ IF links = {}
               THEN MainDel(futures_to_urls, f) /\ UNCHANGED new_links
               ELSE /\ future' = f
                    /\ new_links' = links
                    /\ pc' = "for_link"
                    /\ UNCHANGED futures_to_urls
    /\ UNCHANGED <<env, path_locals, fetcher_locals, reports, threads,
                   STOP_EVENT, checked_links, url_paths, results_queue,
                   futures, results>>

\* for link in new_links: if link not in checked_links: ... submit
\* After the last link the loop body is over.
\* (variant: the membership test inverted)
DispatcherSeesChecked_Inverted(link) == link \notin checked_links
DispatcherSeesChecked(link) == link \in checked_links
StopSeenAtSubmit == STOP_EVENT
MainLink ==
    /\ pc = "for_link" /\ new_links # {}
    /\ \E link \in new_links :
        LET dispatch == ~DispatcherSeesChecked(link) /\ ~StopSeenAtSubmit
            f2u == IF dispatch
                   THEN With(futures_to_urls, Len(futures) + 1, link)
                   ELSE futures_to_urls
        IN  /\ new_links' = new_links \ {link}
            /\ futures' = IF dispatch
                          THEN Submit(futures, link,
                                      ExtendPath(futures[future].path, link))
                          ELSE futures
            /\ IF new_links = {link}
               THEN MainDel(f2u, future)
               ELSE futures_to_urls' = f2u /\ UNCHANGED <<future, pc>>
    /\ UNCHANGED <<env, path_locals, fetcher_locals, reports, threads,
                   STOP_EVENT, checked_links, url_paths, results_queue,
                   done, results>>

\* if max_urls is not None and len(checked_links) >= max_urls: STOP_EVENT.set()
\* (variant: the comparison reversed)
CapReached_Reversed ==
    max_urls # None /\ Cardinality(checked_links) <= max_urls
CapReached == max_urls # None /\ Cardinality(checked_links) >= max_urls
MainCap ==
    /\ pc = "for_done" /\ done = {}
    /\ IF CapReached
       THEN STOP_EVENT' = TRUE /\ pc' = "cancel"
       ELSE UNCHANGED STOP_EVENT /\ pc' = "while"
    /\ UNCHANGED <<env, path_locals, fetcher_locals, reports, threads,
                   checked_links, url_paths, results_queue, futures,
                   futures_to_urls, dispatcher_locals>>

\* for f in list(futures_to_urls.keys()): f.cancel(); break
\* cancel() succeeds on a task no thread has taken yet.
\* (variant: cancel() also succeeds on a task a thread is running)
Cancellable_Running(f) == futures[f].state \in {"PENDING", "RUNNING"}
Cancellable(f) == futures[f].state = "PENDING"
MainCancel ==
    /\ pc = "cancel"
    /\ futures' = [f \in DOMAIN futures |->
                     IF f \in DOMAIN futures_to_urls /\ Cancellable(f)
                     THEN [futures[f] EXCEPT !.state = "CANCELLED",
                                             !.at = "cancelled"]
                     ELSE futures[f]]
    /\ pc' = "shutdown"
    /\ UNCHANGED <<env, path_locals, fetcher_locals, reports, threads,
                   STOP_EVENT, checked_links, url_paths, results_queue,
                   futures_to_urls, dispatcher_locals>>

\* leaving the with block: executor.shutdown(wait=True) returns when every
\* task that was not cancelled has run.
\* (variant: the pool left without waiting for its threads)
PoolIdle_Always == TRUE
PoolIdle == Running = {} /\ Pending = {}
MainShutdown ==
    /\ pc = "shutdown"
    /\ PoolIdle
    /\ pc' = "drain"
    /\ UNCHANGED <<env, path_locals, fetcher_locals, reports, threads,
                   STOP_EVENT, checked_links, url_paths, results_queue,
                   futures, futures_to_urls, dispatcher_locals>>

\* while not results_queue.empty(): results.append(results_queue.get())
\* and the report written from results.
MainDrain ==
    /\ pc = "drain"
    /\ results' = results \o results_queue
    /\ results_queue' = <<>>
    /\ pc' = "done"
    /\ UNCHANGED <<env, path_locals, fetcher_locals, reports, threads,
                   STOP_EVENT, checked_links, url_paths, futures,
                   futures_to_urls, done, future, new_links>>

----------------------------------------------------------------------------
(* Specification                                                           *)

Caps == {None} \cup 1..MaxCap

Init ==
    /\ site \in Sites
    /\ start_url = GraphStart(site.graph)
    /\ max_urls \in Caps
    /\ STOP_EVENT = FALSE
    /\ checked_links = {}
    /\ url_paths = <<>>
    /\ results_queue = <<>>
    /\ futures = <<>>
    /\ futures_to_urls = <<>>
    /\ pc = "submit_root"
    /\ done = {}
    /\ future = 0
    /\ new_links = {}
    /\ results = <<>>
    /\ parent_path = <<>>
    /\ child_url = <<>>
    /\ child_path = <<>>
    /\ fetch_log = <<>>
    /\ fetch_return = <<>>
    /\ reports = <<>>
    /\ threads = <<>>

WorkerStep ==
    \E f \in DOMAIN futures :
        \/ PoolStart(f)
        \/ WorkerStopCheck(f)
        \/ WorkerClaim(f)
        \/ WorkerCheck(f)
        \/ WorkerLinks(f)

MainStep ==
    \/ MainSubmitRoot
    \/ MainWait
    \/ MainResult
    \/ MainLink
    \/ MainCap
    \/ MainCancel
    \/ MainShutdown
    \/ MainDrain

Next == WorkerStep \/ MainStep

Spec == Init /\ [][Next]_vars

\* The threads of the pool and the main thread all keep running.
FairSpec == Spec /\ WF_vars(WorkerStep) /\ WF_vars(MainStep)

----------------------------------------------------------------------------
(* main() called again in the same process                                 *)

\* main() has returned and is called again with the same arguments: its
\* locals and its executor are new, the module-level state is what the
\* call before left.
MainAgain ==
    /\ pc = "done"
    /\ Len(reports) + 1 < MaxCrawls
    /\ reports' = Append(reports, results)
    /\ futures' = <<>>
    /\ futures_to_urls' = <<>>
    /\ pc' = "submit_root"
    /\ done' = {}
    /\ future' = 0
    /\ new_links' = {}
    /\ results' = <<>>
    /\ UNCHANGED <<env, path_locals, fetcher_locals, threads, STOP_EVENT,
                   checked_links,
                   url_paths, results_queue>>

CrawlsNext == Next \/ MainAgain

CrawlsSpec == Init /\ [][CrawlsNext]_vars

----------------------------------------------------------------------------
(* The path computation of main() run on its own                           *)

\* Lengths of the start URLs and of the links tried.
RootLens == {10, 100, 200, 242, 243, 246, 250, 252, 253, 255}
LinkLens == {5, 30, 100, 143, 144, 146, 250}
Roots == {Rep("r", n) : n \in RootLens}
Links == {Rep("k", n) : n \in LinkLens}

\* The crawl has not begun; main is about to extend the path of the root by
\* a link of the root's page.
PathInit ==
    /\ site = [graph |-> "fan", kind |-> [u \in URLs |-> "ok"]]
    /\ start_url = GraphStart(site.graph)
    /\ max_urls = None
    /\ STOP_EVENT = FALSE
    /\ checked_links = {}
    /\ url_paths = <<>>
    /\ results_queue = <<>>
    /\ futures = <<>>
    /\ futures_to_urls = <<>>
    /\ pc = "submit_root"
    /\ done = {}
    /\ future = 0
    /\ new_links = {}
    /\ results = <<>>
    /\ parent_path \in Roots
    /\ child_url \in Links
    /\ child_path = <<>>
    /\ fetch_log = <<>>
    /\ fetch_return = <<>>
    /\ reports = <<>>
    /\ threads = <<>>

\* new_path computed from path and link
Extend ==
    /\ child_path = <<>>
    /\ child_path' = ExtendPath(parent_path, child_url)
    /\ UNCHANGED <<env, STOP_EVENT, checked_links, url_paths, results_queue,
                   futures, futures_to_urls, pc, dispatcher_locals,
                   fetcher_locals, reports, threads, parent_path, child_url>>

\* The task of the link ran with new_path and returned it with its own
\* links: new_links, path = future.result(), and the next link taken.
Descend ==
    /\ child_path # <<>>
    /\ Len(Split(child_path, Arrow)) <= MaxSegments
    /\ parent_path' = child_path
    /\ child_url' \in Links
    /\ child_path' = <<>>
    /\ UNCHANGED <<env, STOP_EVENT, checked_links, url_paths, results_queue,
                   futures, futures_to_urls, pc, dispatcher_locals,
                   fetcher_locals, reports, threads>>

PathNext == Extend \/ Descend

PathSpec == PathInit /\ [][PathNext]_vars

----------------------------------------------------------------------------
(* check_link() run on its own: the attempts of session.get                *)

\* An attempt that gets no response (connection refused or reset, timeout).
ConnectionFailed == 0
\* Retry(total=MAX_RETRIES, status_forcelist=[500, 502, 503, 504])
status_forcelist == {500, 502, 503, 504}
\* What one attempt can give: a status or no response.
Answers == {200, 404, 501} \cup status_forcelist \cup {ConnectionFailed}

\* The adapter retries after no response and after a status of the list,
\* while retries are left.
Retryable(a) == a = ConnectionFailed \/ a \in status_forcelist
\* (variant: retries never run out)
RetriesLeft_Always(log) == TRUE
RetriesLeft(log) == Len(log) - 1 < MAX_RETRIES

\* check_link is called for a URL; no crawl is running.
FetchInit ==
    /\ site = [graph |-> "fan", kind |-> [u \in URLs |-> "ok"]]
    /\ start_url = GraphStart(site.graph)
    /\ max_urls = None
    /\ STOP_EVENT = FALSE
    /\ checked_links = {}
    /\ url_paths = <<>>
    /\ results_queue = <<>>
    /\ futures = <<>>
    /\ futures_to_urls = <<>>
    /\ pc = "submit_root"
    /\ done = {}
    /\ future = 0
    /\ new_links = {}
    /\ results = <<>>
    /\ parent_path = <<>>
    /\ child_url = <<>>
    /\ child_path = <<>>
    /\ fetch_log = <<>>
    /\ fetch_return = <<>>
    /\ reports = <<>>
    /\ threads = <<>>

\* session.get sends the request: the first attempt, or a retry
Attempt ==
    /\ fetch_return = <<>>
    /\ \/ fetch_log = <<>>
       \/ /\ fetch_log # <<>>
          /\ Retryable(fetch_log[Len(fetch_log)])
          /\ RetriesLeft(fetch_log)
    /\ \E a \in Answers : fetch_log' = Append(fetch_log, a)
    /\ UNCHANGED <<env, path_locals, reports, threads, STOP_EVENT,
                   checked_links,
                   url_paths, results_queue, futures, futures_to_urls, pc,
                   dispatcher_locals, fetch_return>>

\* return response.status_code
ReturnStatus ==
    /\ fetch_return = <<>>
    /\ fetch_log # <<>>
    /\ ~Retryable(fetch_log[Len(fetch_log)])
    /\ fetch_return' = <<fetch_log[Len(fetch_log)]>>
    /\ UNCHANGED <<env, path_locals, reports, threads, STOP_EVENT,
                   checked_links,
                   url_paths, results_queue, futures, futures_to_urls, pc,
                   dispatcher_locals, fetch_log>>

\* The retries are used up: session.get raises a RequestException,
\* except requests.RequestException: return None
ReturnNone ==
    /\ fetch_return = <<>>
    /\ fetch_log # <<>>
    /\ Retryable(fetch_log[Len(fetch_log)])
    /\ ~RetriesLeft(fetch_log)
    /\ fetch_return' = <<None>>
    /\ UNCHANGED <<env, path_locals, reports, threads, STOP_EVENT,
                   checked_links,
                   url_paths, results_queue, futures, futures_to_urls, pc,
                   dispatcher_locals, fetch_log>>

FetchNext == Attempt \/ ReturnStatus \/ ReturnNone

FetchSpec == FetchInit /\ [][FetchNext]_vars

----------------------------------------------------------------------------
(* The requests of worker(), run on their own                              *)

\* Each thread of the pool runs calls of worker() one after the other.  Of
\* a call, the thread keeps whether its path is the start URL alone, what
\* check_link got, and the requests (GET) and delays (sleep) it has made.
Threads == 1..max_workers
\* What the calls of worker() run on their own leave alone.
crawl_state == <<env, path_locals, fetcher_locals, reports, STOP_EVENT,
                 checked_links, url_paths, results_queue, futures,
                 futures_to_urls, pc, dispatcher_locals>>
Idle == [at |-> "idle", root |-> FALSE, status |-> None, raised |-> FALSE,
         log |-> <<>>]

RequestsInit ==
    /\ site = [graph |-> "fan", kind |-> [u \in URLs |-> "ok"]]
    /\ start_url = GraphStart(site.graph)
    /\ max_urls = None
    /\ STOP_EVENT = FALSE
    /\ checked_links = {}
    /\ url_paths = <<>>
    /\ results_queue = <<>>
    /\ futures = <<>>
    /\ futures_to_urls = <<>>
    /\ pc = "submit_root"
    /\ done = {}
    /\ future = 0
    /\ new_links = {}
    /\ results = <<>>
    /\ parent_path = <<>>
    /\ child_url = <<>>
    /\ child_path = <<>>
    /\ fetch_log = <<>>
    /\ fetch_return = <<>>
    /\ reports = <<>>
    /\ threads = [t \in Threads |-> Idle]

\* The thread takes a task: worker(url, path) runs up to check_link(url).
WorkerCall(t) ==
    /\ threads[t].at = "idle"
    /\ \E root \in BOOLEAN :
          threads' = [threads EXCEPT ![t] =
                         [Idle EXCEPT !.at = "check_link", !.root = root]]
    /\ UNCHANGED crawl_state

\* check_link: session.get answers with a status, raises a
\* requests.RequestException (None is returned) or raises something else.
CheckLinkGet(t) ==
    /\ threads[t].at = "check_link"
    /\ \E answer \in {200, 404, None}, raised \in BOOLEAN :
          threads' = [threads EXCEPT
                         ![t].at = "finally",
                         ![t].status = IF raised THEN None ELSE answer,
                         ![t].raised = raised,
                         ![t].log = Append(@, "GET")]
    /\ UNCHANGED crawl_state

\* check_link: finally: time.sleep(RATE_LIMIT), then the return or the
\* exception going up through worker
CheckLinkSleep(t) ==
    /\ threads[t].at = "finally"
    /\ threads' = [threads EXCEPT
                      ![t].at = IF threads[t].raised THEN "idle"
                                ELSE "verify_link_in_ui",
                      ![t].log = Append(@, "sleep")]
    /\ UNCHANGED crawl_state

\* verify_link_in_ui: "N/A" for a path of one piece, else session.get of
\* the parent; then results_queue.put, and the return of line 120 when the
\* status is not 200
VerifyLinkInUi(t) ==
    /\ threads[t].at = "verify_link_in_ui"
    /\ threads' = [threads EXCEPT
                      ![t].at = IF ExtractsLinks(threads[t].status)
                                THEN "get_links" ELSE "idle",
                      ![t].log = IF threads[t].root THEN @
                                 ELSE Append(@, "GET")]
    /\ UNCHANGED crawl_state

\* get_links: session.get of the page, and the return of line 119
GetLinks(t) ==
    /\ threads[t].at = "get_links"
    /\ threads' = [threads EXCEPT ![t].at = "idle",
                                  ![t].log = Append(@, "GET")]
    /\ UNCHANGED crawl_state

RequestsNext ==
    \E t \in Threads :
        \/ WorkerCall(t)
        \/ CheckLinkGet(t)
        \/ CheckLinkSleep(t)
        \/ VerifyLinkInUi(t)
        \/ GetLinks(t)

RequestsSpec == RequestsInit /\ [][RequestsNext]_vars

----------------------------------------------------------------------------
(* Properties                                                              *)

\* Every record pushed so far: those drained, then those still queued.
AllRecords == results \o results_queue
HasRecord(u) == \E i \in 1..Len(AllRecords) : AllRecords[i].URL = u
\* The task passed the locked test of checked_links and inserted its URL.
Claimed(f) ==
    futures[f].at \in {"check", "links", "return_119", "return_120", "raise_106"}
AllOk == \A u \in URLs : site.kind[u] = "ok"
\* The URLs joined to the start URL by links that get_links extracts.
RECURSIVE ExtractedClosure(_)
ExtractedClosure(S) ==
    LET T == S \cup UNION {get_links(u) : u \in S}
    IN  IF T = S THEN S ELSE ExtractedClosure(T)
Reachable == ExtractedClosure({start_url})
\* Running tasks that passed the STOP_EVENT test and have not yet reached
\* the locked test of checked_links.
InFlightUnclaimed ==
    Cardinality({f \in DOMAIN futures :
                    futures[f].state = "RUNNING" /\ futures[f].at = "claim"})

\* C1: no URL has two records in the Result Sink, however the dispatcher
\* and the workers interleave and however many parents list the URL.
C1_AtMostOnce ==
    \A i, j \in 1..Len(AllRecords) :
        AllRecords[i].URL = AllRecords[j].URL => i = j
\* Two tasks for one URL have both run and the URL has its record.
C1_Witness ==
    \E f, g \in DOMAIN futures :
        /\ f # g /\ futures[f].url = futures[g].url
        /\ futures[f].state = "FINISHED" /\ futures[g].state = "FINISHED"
        /\ HasRecord(futures[f].url)

\* C2 as stated: no URL has two tasks submitted to the pool.
C2_OneTaskPerUrl ==
    \A f, g \in DOMAIN futures : futures[f].url = futures[g].url => f = g
\* C2 amended: of the tasks submitted for one URL at most one passes the
\* locked test and goes on to check the URL.
C2_OneClaimPerUrl ==
    \A f, g \in DOMAIN futures :
        (futures[f].url = futures[g].url /\ Claimed(f) /\ Claimed(g)) => f = g
\* A second task for a URL found it claimed and returned at once.
C2_Witness ==
    \E f, g \in DOMAIN futures :
        /\ futures[f].url = futures[g].url
        /\ Claimed(f) /\ futures[g].at = "return_101"

\* C3: at the end of the crawl there are as many records as visited URLs.
C3_Cardinality ==
    pc = "done" => Len(results) = Cardinality(checked_links)

\* C4: the Path of every record, the root's included, has at most 255
\* characters.
C4_PathBound ==
    \A i \in 1..Len(AllRecords) : Len(AllRecords[i].Path) <= MAX_PATH_LENGTH

\* The crawl of the cycle A -> B -> A from A, every page answering 200, no cap.
CycleRun == site.graph = "cycle" /\ AllOk /\ max_urls = None
\* C5: the crawl of the cycle A -> B -> A from A, every page answering 200
\* and no cap given, ends, with exactly the records of A and of B.
C5_CycleTerminates ==
    CycleRun =>
        <>(/\ pc = "done"
           /\ Len(results) = 2
           /\ {results[i].URL : i \in 1..Len(results)} = {A, B})
\* The crawl of the cycle is over and B's task returned the link back to A.
C5_Witness ==
    /\ CycleRun /\ pc = "done"
    /\ \E f \in DOMAIN futures :
          futures[f].url = B /\ futures[f].links = {A}
    /\ Len(results) = 2

\* C6: whatever the graph and the answers of its pages, the crawl ends:
\* the loop left, the pool shut down, the sink drained.
C6_Terminates == <>(pc = "done" /\ PoolIdle /\ results_queue = <<>>)
\* A crawl in which a task raised is over.
C6_Witness ==
    /\ pc = "done"
    /\ \E f \in DOMAIN futures : futures[f].at = "raise_106"
    /\ Len(results) > 0

\* C7: without a cap every URL joined to the root by extracted links has a
\* record once the crawl is over.
C7_AllReachableRecorded ==
    (pc = "done" /\ max_urls = None) => \A u \in Reachable : HasRecord(u)

\* C8: with a cap N and more than N reachable pages, all answering 200, the
\* crawl ends through the cap and has visited at least N URLs.
C8_CapEnforced ==
    (/\ pc = "done" /\ max_urls # None /\ AllOk
     /\ Cardinality(Reachable) > max_urls)
    => (STOP_EVENT /\ Cardinality(checked_links) >= max_urls)
\* Such a crawl is over and the cap cancelled a task.
C8_Witness ==
    /\ pc = "done" /\ max_urls # None /\ AllOk
    /\ Cardinality(Reachable) > max_urls
    /\ \E f \in DOMAIN futures : futures[f].state = "CANCELLED"

\* C9 as stated: with a cap N the crawl ends with at most N + pool size
\* visited URLs.
C9_OvershootBound ==
    (pc = "done" /\ max_urls # None)
    => Cardinality(checked_links) <= max_urls + max_workers
\* C9 amended: once the stop signal is raised the Visited Set grows only by
\* the running tasks that had passed their stop test, of which there are
\* never more than the pool has threads.
C9_GrowthAfterStop ==
    /\ [](InFlightUnclaimed <= max_workers)
    /\ [][STOP_EVENT =>
            Cardinality(checked_links') + InFlightUnclaimed'
                <= Cardinality(checked_links) + InFlightUnclaimed]_vars
\* The cap has fired while a running task is past its stop test.
C9_Witness ==
    /\ STOP_EVENT /\ max_urls # None
    /\ InFlightUnclaimed > 0

\* An uncapped crawl that meets a page whose fetch fails with a network error.
NetErrRun == max_urls = None /\ \E u \in Reachable : site.kind[u] = "neterr"
\* C10: when the fetch of one URL fails with a network error, every other
\* URL joined to the root by links of the pages that answered has a record.
C10_FailureIsolation ==
    (pc = "done" /\ NetErrRun)
    => \A u \in Reachable : site.kind[u] # "neterr" => HasRecord(u)
\* B failed, and D, which B and C both link to, has its record.
C10_Witness ==
    /\ pc = "done" /\ NetErrRun
    /\ site.graph = "diamond" /\ site.kind[B] = "neterr"
    /\ HasRecord(D)

\* The record of u carries the status s.
RecordStatus(u, s) ==
    \E i \in 1..Len(AllRecords) : AllRecords[i].URL = u /\ AllRecords[i].Status = s
\* check_link has returned in the task: its record is on the queue.
Checked(f) == futures[f].at \in {"links", "return_119", "return_120"}
\* The tasks of the pages that answer in the way `kind`, past check_link.
CheckedOfKind(kind) ==
    {f \in DOMAIN futures : site.kind[futures[f].url] = kind /\ Checked(f)}

\* C11: a task whose GET fails with a network error or a timeout pushes the
\* record of its URL with a null Status and returns no link, and the
\* dispatcher submits a task only for a link of a task whose status is 200.
C11_FetchFailure ==
    /\ [](\A f \in CheckedOfKind("neterr") :
            /\ RecordStatus(futures[f].url, None)
            /\ futures[f].at # "return_119"
            /\ futures[f].links = {})
    /\ [][(Len(futures') > Len(futures) /\ pc # "submit_root")
            => futures[future].status = 200]_vars
\* The crawl is over: B failed with a null-status record and returned by
\* line 120, and tasks were submitted for links of other pages.
C11_Witness ==
    /\ pc = "done" /\ site.kind[B] = "neterr"
    /\ \E f \in DOMAIN futures :
          futures[f].url = B /\ futures[f].at = "return_120"
    /\ RecordStatus(B, None)
    /\ Len(futures) > 2

\* C12 as stated, on sites whose pages all answer 200: at the end of the
\* crawl there are as many records as tasks that ran to completion.
C12_OneRecordPerTask ==
    (pc = "done" /\ AllOk)
    => Len(results) =
          Cardinality({f \in DOMAIN futures : futures[f].state = "FINISHED"})
\* C12 amended: a task pushes one record when it claimed its URL and
\* check_link returned, and none when it returned at the stop test, found
\* its URL claimed, or check_link raised; so a claimed URL whose GET does
\* not raise has exactly one record once its task passed check_link.
C12_OneRecordPerCheck ==
    /\ Len(AllRecords) =
          Cardinality({f \in DOMAIN futures :
                          /\ Claimed(f) /\ futures[f].at # "check"
                          /\ site.kind[futures[f].url] # "crash"})
    /\ \A f \in DOMAIN futures :
          Checked(f) =>
              Cardinality({i \in 1..Len(AllRecords) :
                              AllRecords[i].URL = futures[f].url}) = 1
\* The crawl is over with records, a task that found its URL claimed and a
\* task whose check raised.
C12_Witness ==
    /\ pc = "done" /\ Len(results) > 0
    /\ \E f, g \in DOMAIN futures :
          futures[f].at = "return_101" /\ futures[g].at = "raise_106"

\* C13: a URL whose task raised an unexpected exception has a record once
\* the crawl is over.
C13_ExceptionRecorded ==
    pc = "done" =>
        \A f \in DOMAIN futures :
            futures[f].at = "raise_106" => HasRecord(futures[f].url)

\* C14: once STOP_EVENT is set no task is submitted, and a URL claimed while
\* STOP_EVENT was not yet set has its record when a crawl that was stopped
\* is over.
C14_StopLetsClaimedFinish ==
    /\ [][STOP_EVENT => Len(futures') = Len(futures)]_vars
    /\ \A u \in URLs :
          []((u \in checked_links /\ ~STOP_EVENT)
                => []((pc = "done" /\ STOP_EVENT) => HasRecord(u)))

\* C15: a page that answers 404 gets a record with Status 404 and its task
\* returns no link; without a cap the crawl is not stopped and every URL
\* joined to the root by extracted links has its record at the end.
C15_NonSuccessStatus ==
    /\ \A f \in CheckedOfKind("http404") :
          /\ RecordStatus(futures[f].url, 404)
          /\ ~RecordStatus(futures[f].url, 200)
          /\ futures[f].at # "return_119"
          /\ futures[f].links = {}
    /\ (max_urls = None /\ \E u \in Reachable : site.kind[u] = "http404")
          => /\ ~STOP_EVENT
             /\ pc = "done" => \A u \in Reachable : HasRecord(u)
\* B answered 404 and the crawl went on to the end: D, which C also links
\* to, has its record.
C15_Witness ==
    /\ pc = "done" /\ max_urls = None
    /\ site.graph = "diamond" /\ site.kind[B] = "http404"
    /\ RecordStatus(B, 404)
    /\ HasRecord(D)

\* C17: never more tasks run at once than the pool has threads, and a task
\* is pending only while every thread is taken or it has just been queued.
C17_PoolSize ==
    /\ [](Cardinality(Running) <= max_workers)
    /\ [][\A f \in DOMAIN futures :
            (futures[f].state = "PENDING" /\ futures'[f].state = "RUNNING")
            => Cardinality(Running) < max_workers]_vars
\* Every thread of the pool runs a task and a further task waits.
C17_Witness ==
    /\ Cardinality(Running) = max_workers
    /\ Pending # {}

\* C18 as stated: the URL of every pending or running task is in the
\* Visited Set.
C18_VisitedAtDispatch ==
    \A f \in DOMAIN futures :
        futures[f].state \in {"PENDING", "RUNNING"}
        => futures[f].url \in checked_links
\* C18 amended: a URL enters the Visited Set when a running task claims it
\* under the lock, not when the task is submitted: the visited URLs are
\* those of the tasks that passed the locked test, one such task per URL,
\* and the set never loses a URL.
C18_VisitedAtClaim ==
    /\ [](checked_links = {futures[f].url : f \in {g \in DOMAIN futures : Claimed(g)}})
    /\ [](\A u \in checked_links :
            Cardinality({f \in DOMAIN futures :
                            futures[f].url = u /\ Claimed(f)}) = 1)
    /\ [][checked_links \subseteq checked_links']_vars
    /\ [][checked_links' # checked_links =>
            \E f \in Running :
                (/\ futures[f].at = "claim" /\ futures'[f].at = "check"
                 /\ futures[f].url \notin checked_links
                 /\ checked_links' = checked_links \cup {futures[f].url})]_vars
\* A task is queued for a URL that is not visited yet while other URLs are.
C18_Witness ==
    /\ checked_links # {}
    /\ \E f \in Pending : futures[f].url \notin checked_links

\* C19: the record of a URL c other than the root has the path that
\* ExtendPath gives from the path of the record of a URL p with status 200
\* whose extracted links contain c; the path of a task, the path noted for
\* a URL and the path of a record never change.
C19_PathFromParent ==
    /\ [](\A i \in 1..Len(AllRecords) :
            AllRecords[i].URL # start_url =>
                \E j \in 1..Len(AllRecords) :
                    /\ AllRecords[j].Status = 200
                    /\ AllRecords[i].URL \in get_links(AllRecords[j].URL)
                    /\ AllRecords[i].Path =
                          ExtendPath(AllRecords[j].Path, AllRecords[i].URL))
    /\ [](\A u \in DOMAIN url_paths :
            \A i \in 1..Len(AllRecords) :
                AllRecords[i].URL = u => AllRecords[i].Path = url_paths[u])
    /\ [][(/\ \A f \in DOMAIN futures : futures'[f].path = futures[f].path
           /\ \A u \in DOMAIN url_paths : url_paths'[u] = url_paths[u]
           /\ \A i \in 1..Len(AllRecords) : AllRecords'[i] = AllRecords[i])]_vars
\* D has its record: its path, through B or through C, is too long and was
\* shortened; B has its record with the path from A.
C19_Witness ==
    /\ site.graph = "diamond" /\ pc = "done"
    /\ \E i, j \in 1..Len(results) :
          /\ results[i].URL = D
          /\ results[i].Path = A \o ArrowDotsArrow \o D
          /\ results[j].URL = B
          /\ results[j].Path = A \o Arrow \o B

\* C20: the records are taken from the queue in one step, when no task is
\* running or pending; no record is pushed from then on, and the report
\* holds the record of every task whose check returned.
C20_DrainAfterWorkers ==
    /\ [](pc \in {"drain", "done"} => Running = {} /\ Pending = {})
    /\ [](pc = "done" =>
            /\ results_queue = <<>>
            /\ \A f \in DOMAIN futures :
                  Checked(f) => \E i \in 1..Len(results) :
                                    results[i].URL = futures[f].url)
    /\ [][results' # results =>
            pc = "drain" /\ results = <<>> /\ results' = results_queue]_vars
    /\ [][(pc = "drain" \/ pc = "done") =>
            Len(results_queue') <= Len(results_queue)]_vars
\* The cap fired while a task was checking its URL; the report has its
\* record.
C20_Witness ==
    /\ pc = "done" /\ STOP_EVENT
    /\ Len(results) > max_urls

\* The first segment of a path.
FirstSegment(p) == Split(p, Arrow)[1]
\* new_path has been computed from a path and a link that are together
\* longer than MAX_PATH_LENGTH.
Shortened ==
    /\ child_path # <<>>
    /\ Len(parent_path) + Len(Arrow) + Len(child_url) > MAX_PATH_LENGTH

RecordSet(rs) == {rs[i] : i \in 1..Len(rs)}

\* C21: a call of main() made after another has returned starts with an
\* empty Visited Set, the stop signal cleared and an empty queue, and
\* without a cap it reports the same records as the call before.
C21_CrawlsIsolated ==
    /\ (Len(reports) >= 1 /\ pc = "submit_root")
          => checked_links = {} /\ ~STOP_EVENT /\ results_queue = <<>>
    /\ (Len(reports) >= 1 /\ pc = "done" /\ max_urls = None)
          => RecordSet(results) = RecordSet(reports[Len(reports)])

\* C22: once STOP_EVENT is set the Visited Set grows only by running tasks
\* that were past their stop test; a task that reaches its stop test with
\* STOP_EVENT set returns by line 98, and that return changes neither the
\* Visited Set nor the queue.
C22_GrowthByInFlight ==
    /\ [][STOP_EVENT =>
            Cardinality(checked_links') - Cardinality(checked_links)
                <= InFlightUnclaimed - InFlightUnclaimed']_vars
    /\ [][\A f \in DOMAIN futures :
            (STOP_EVENT /\ futures[f].at \in {"queued", "stop_check"})
            => futures'[f].at \in {"queued", "stop_check", "return_98",
                                   "cancelled"}]_vars
    /\ [][\A f \in DOMAIN futures :
            (futures[f].at = "stop_check" /\ futures'[f].at = "return_98")
            => (checked_links' = checked_links
                /\ results_queue' = results_queue)]_vars
\* The cap fired and a task that began after it returned by line 98, its
\* URL not visited.
C22_Witness ==
    /\ STOP_EVENT
    /\ \E f \in DOMAIN futures :
          futures[f].at = "return_98" /\ futures[f].url \notin checked_links

\* C27: a task is cancelled only while pending, the cancellation changes
\* neither the Visited Set, nor the queue, nor url_paths, a cancelled task
\* never runs, and a running task is never cancelled.
C27_CancelledLeavesNoTrace ==
    /\ [](\A f \in DOMAIN futures :
            futures[f].state = "CANCELLED"
            => (futures[f].at = "cancelled" /\ futures[f].status = None
                /\ futures[f].links = {}))
    /\ [][\A f \in DOMAIN futures :
            (futures[f].state # "CANCELLED" /\ futures'[f].state = "CANCELLED")
            => (futures[f].state = "PENDING" /\ futures[f].at = "queued"
                /\ checked_links' = checked_links
                /\ results_queue' = results_queue
                /\ url_paths' = url_paths)]_vars
    /\ [][\A f \in DOMAIN futures :
            futures[f].state = "CANCELLED" => futures'[f] = futures[f]]_vars
\* The cap cancelled a pending task while another task goes on running.
C27_Witness ==
    /\ pc = "shutdown"
    /\ \E f, g \in DOMAIN futures :
          /\ futures[f].state = "CANCELLED"
          /\ futures[f].url \notin checked_links
          /\ futures[g].state = "RUNNING"

\* The state of the crawl: Terminated once main has left the executor,
\* Draining while STOP_EVENT is set before that, Running otherwise.
CrawlState ==
    IF pc \in {"drain", "done"} THEN "Terminated"
    ELSE IF STOP_EVENT THEN "Draining" ELSE "Running"
\* C28: STOP_EVENT is never cleared; it is set by the cap test, exactly when
\* that test finds the cap reached; the crawl state only moves forward; the
\* crawl is Terminated only with no task pending or running, and the loop
\* is left without the cap only with no outstanding task.
C28_CrawlStateForward ==
    /\ [][STOP_EVENT => STOP_EVENT']_vars
    /\ [][(pc = "for_done" /\ done = {} /\ pc' # pc) =>
            (STOP_EVENT' <=>
                (max_urls # None /\ Cardinality(checked_links) >= max_urls))]_vars
    /\ [][(~STOP_EVENT /\ STOP_EVENT') => (pc = "for_done" /\ done = {})]_vars
    /\ [][(\/ CrawlState' = CrawlState
           \/ CrawlState = "Running" /\ CrawlState' = "Draining"
           \/ CrawlState = "Running" /\ CrawlState' = "Terminated"
           \/ CrawlState = "Draining" /\ CrawlState' = "Terminated")]_vars
    /\ [](CrawlState = "Terminated" => (Running = {} /\ Pending = {}))
    /\ []((pc = "shutdown" /\ ~STOP_EVENT) => futures_to_urls = <<>>)
\* The crawl is Draining: the cap fired and a task is still running.
C28_Witness ==
    /\ CrawlState = "Draining"
    /\ Running # {}
    /\ futures_to_urls # <<>>

\* The request of verify_link_in_ui fails: what the path gives as the
\* parent is no URL of the site, or the page does not answer.
SideCheckFails(p) ==
    Bind(Split(p, BareArrow), LAMBDA raw :
      /\ Len(raw) >= 2
      /\ \/ Strip(raw[Len(raw) - 1]) \notin URLs
         \/ site.kind[Strip(raw[Len(raw) - 1])] \in {"neterr", "crash"})
\* C29: when the request of the visibility check fails, the record of the
\* URL is pushed with Visible "No" and the status check_link returned, and
\* the task goes on to extract the links of a page that answered 200.
C29_SideCheckFailure ==
    \A f \in DOMAIN futures :
        (Checked(f) /\ SideCheckFails(futures[f].path)) =>
            /\ \E i \in 1..Len(AllRecords) :
                  /\ AllRecords[i].URL = futures[f].url
                  /\ AllRecords[i].Visible = "No"
                  /\ AllRecords[i].Status = check_link(futures[f].url)
            /\ futures[f].status = check_link(futures[f].url)
            /\ futures[f].at = "return_119"
                  => futures[f].links = get_links(futures[f].url)
\* D was reached by a shortened path, whose parent "..." cannot be
\* requested: D has its record, with Status 200 and Visible "No", and its
\* links were extracted.
C29_Witness ==
    /\ site.graph = "diamond"
    /\ \E f \in DOMAIN futures :
          /\ futures[f].url = D /\ futures[f].at = "return_119"
          /\ SideCheckFails(futures[f].path)
    /\ \E i \in 1..Len(AllRecords) :
          /\ AllRecords[i].URL = D
          /\ AllRecords[i].Status = 200
          /\ AllRecords[i].Visible = "No"

\* The full path of the link, its segments, and the room left for the last
\* segment after the first one and " -> ... -> ".
FullPath == parent_path \o Arrow \o child_url
Parts == Split(FullPath, Arrow)
Budget == MAX_PATH_LENGTH - Len(Parts[1]) - Len(ArrowDotsArrow)
\* new_path has been computed from a full path of three segments or more
\* that is longer than MAX_PATH_LENGTH.
ShortenedOfThree == Shortened /\ Len(Parts) >= 3

\* C23: for a full path of three segments or more that is too long, when
\* the last segment has at most 255 - len(root) - len(" -> ... -> ")
\* characters the new path is root -> ... -> last segment, the last segment
\* whole.
C23_LastSegmentFits ==
    (ShortenedOfThree /\ Len(Parts[Len(Parts)]) <= Budget)
    => child_path = Parts[1] \o ArrowDotsArrow \o Parts[Len(Parts)]

\* C24: for a full path of three segments or more that is too long, when
\* the last segment is longer than the budget and the budget is positive,
\* the new path is root -> ... -> and the first `budget` characters of the
\* last segment, at most 255 characters in all.
C24_LastSegmentCut ==
    (ShortenedOfThree /\ Len(Parts[Len(Parts)]) > Budget /\ Budget > 0)
    => /\ child_path = Parts[1] \o ArrowDotsArrow
                          \o Take(Parts[Len(Parts)], Budget)
       /\ Len(child_path) <= MAX_PATH_LENGTH

\* C25: a full path of fewer than three segments that is too long gives its
\* first 252 characters followed by "...", 255 characters in all.
C25_TwoSegments ==
    (Shortened /\ Len(Parts) < 3)
    => /\ child_path = Take(FullPath, MAX_PATH_LENGTH - 3) \o Dots
       /\ Len(child_path) = MAX_PATH_LENGTH
\* The path of the root, 250 characters, extended by a link.
C25_Witness ==
    /\ Shortened /\ Len(Parts) = 2
    /\ Len(parent_path) = 250
    /\ Len(child_path) = MAX_PATH_LENGTH

\* C26: for a full path of three segments or more that is too long, when
\* the budget is zero or less the new path is the first 252 characters of
\* the full path followed by "...".
C26_NoBudget ==
    (ShortenedOfThree /\ Budget <= 0)
    => child_path = Take(FullPath, MAX_PATH_LENGTH - 3) \o Dots
\* A root of 246 characters, a second segment, and a link.
C26_Witness ==
    /\ ShortenedOfThree /\ Budget <= 0
    /\ Len(Parts[1]) = 246
    /\ Len(child_path) = MAX_PATH_LENGTH

\* check_link has returned.
Returned == fetch_return # <<>>
\* Every attempt got a status 5xx or no response.
AllFailed(log) ==
    \A i \in 1..Len(log) :
        log[i] = ConnectionFailed \/ (log[i] >= 500 /\ log[i] <= 599)
\* Every attempt got a status of status_forcelist or no response.
AllRetryable(log) == \A i \in 1..Len(log) : Retryable(log[i])

\* C30 as stated: when every attempt gets a 5xx status or no response,
\* check_link makes at most 1 + MAX_RETRIES attempts and returns None.
C30_Every5xxIsNull ==
    /\ Len(fetch_log) <= 1 + MAX_RETRIES
    /\ (Returned /\ AllFailed(fetch_log)) => fetch_return = <<None>>
\* C30 amended: check_link makes at most 1 + MAX_RETRIES attempts and
\* always returns; when every attempt gets 500, 502, 503, 504 or no
\* response it makes all of them and returns None; another status, 5xx or
\* not, is returned as it is, after the attempt that got it.
C30_BoundedRetries ==
    /\ Len(fetch_log) <= 1 + MAX_RETRIES
    /\ (Returned /\ AllRetryable(fetch_log))
          => (fetch_return = <<None>> /\ Len(fetch_log) = 1 + MAX_RETRIES)
    /\ (Returned /\ ~AllRetryable(fetch_log))
          => fetch_return = <<fetch_log[Len(fetch_log)]>>
    /\ (~Returned /\ fetch_log # <<>>) => ENABLED FetchNext
\* Three attempts failed, the last with no response, and check_link
\* returned None.
C30_Witness ==
    /\ Len(fetch_log) = 1 + MAX_RETRIES
    /\ AllRetryable(fetch_log)
    /\ fetch_log[Len(fetch_log)] = ConnectionFailed
    /\ fetch_log[1] = 503
    /\ fetch_return = <<None>>

\* The task of a page that answered 200 and whose link extraction fails
\* has returned.
ExtractionFailed(f) ==
    /\ site.kind[futures[f].url] = "badhtml"
    /\ futures[f].state = "FINISHED"
\* C31: when the link extraction of a page that answered 200 fails, the
\* task returns normally with no link (it does not raise), the record of
\* the page, pushed before, stays in the Result Sink, and the dispatcher
\* submits no task while it handles the result of that task.
C31_ExtractionFailure ==
    [][(/\ \A f \in DOMAIN futures' :
              ExtractionFailed(f)' /\ Claimed(f)' =>
                  /\ futures'[f].at \in {"return_119", "return_120"}
                  /\ futures'[f].links = {}
                  /\ futures'[f].status = 200
                  /\ HasRecord(futures[f].url)'
        /\ (Len(futures') > Len(futures) /\ pc = "for_link") =>
              site.kind[futures[future].url] # "badhtml")]_vars
\* In the cycle the page of B answers 200 with markup that cannot be
\* parsed: its task returned from line 119 with no link, B has its
\* record, and the crawl ended with the two tasks of A and B only.
C31_Witness ==
    /\ site.graph = "cycle" /\ site.kind[B] = "badhtml"
    /\ pc = "done"
    /\ Len(futures) = 2
    /\ futures[2].url = B /\ futures[2].at = "return_119"
    /\ futures[2].links = {}
    /\ \E i \in 1..Len(results) :
          results[i].URL = B /\ results[i].Status = 200

\* The running tasks that hold the URL u: they inserted it in
\* checked_links and have not returned.
Processing(u) ==
    {f \in DOMAIN futures :
        /\ futures[f].url = u
        /\ futures[f].state = "RUNNING"
        /\ futures[f].at \in {"check", "links"}}
\* C34: in every state the URLs that have a record are in checked_links,
\* and a URL of checked_links without a record is held by exactly one
\* running task.
C34_RecordsWithinVisited ==
    /\ \A i \in 1..Len(AllRecords) : AllRecords[i].URL \in checked_links
    /\ \A u \in checked_links :
          ~HasRecord(u) => Cardinality(Processing(u)) = 1

\* The position of the record of u in the Result Sink (0: no record).
RecordIndex(u) ==
    IF HasRecord(u)
    THEN CHOOSE i \in 1..Len(AllRecords) : AllRecords[i].URL = u
    ELSE 0
\* C35: when the dispatcher submits the task of a link, the page the link
\* was found on has its record and the link has none; records are only
\* appended to the Result Sink, so the record of the parent comes before
\* the record of each child dispatched from it.
C35_ParentRecordFirst ==
    [][(/\ Len(futures') > Len(futures) /\ pc = "for_link" =>
              /\ HasRecord(futures[future].url)
              /\ ~HasRecord(futures'[Len(futures')].url)
        /\ \A i \in 1..Len(AllRecords) : AllRecords'[i] = AllRecords[i])]_vars
\* The fan crawled to its end: the records of B, C and D, all dispatched
\* from A, come after the record of A.
C35_Witness ==
    /\ site.graph = "fan" /\ pc = "done"
    /\ Len(results) = 4
    /\ RecordIndex(A) = 1
    /\ RecordIndex(B) > 1 /\ RecordIndex(C) > 1 /\ RecordIndex(D) > 1

\* The pages on which get_links finds the URL u: the parents that can
\* have discovered it.
Discoverers(u) == {p \in URLs : u \in get_links(p)}
\* C36: the Visible field of a record that is not the root's tells whether
\* the URL is written on the page of the parent that discovered it, also
\* when the path of the URL was shortened: "Yes" when every page that can
\* have discovered it answers and holds the URL in its text, "No" when
\* none of them holds it.
C36_CheckedAgainstParent ==
    \A i \in 1..Len(AllRecords) :
        LET r == AllRecords[i]
        IN  r.URL # start_url =>
              /\ (\A p \in Discoverers(r.URL) :
                      r.URL \in PageText(site.graph, p)) =>
                    r.Visible = "Yes"
              /\ (\A p \in Discoverers(r.URL) :
                      r.URL \notin PageText(site.graph, p)) =>
                    r.Visible = "No"

\* C37: Visible is "N/A" in the record of the root URL and in no other
\* record, and "Yes" or "No" in every record that is not the root's,
\* whatever shortening its path went through.
C37_NotApplicableIffRoot ==
    \A i \in 1..Len(AllRecords) :
        /\ AllRecords[i].Visible = "N/A" <=> AllRecords[i].URL = start_url
        /\ AllRecords[i].URL # start_url =>
              AllRecords[i].Visible \in {"Yes", "No"}

\* The URLs that are not same-domain links, or that hold one of the
\* exclusion substrings.
FilteredOut ==
    {h \in Hrefs :
        \/ ~Contains(h, Domain)
        \/ \E x \in Exclusions : Contains(h, x)}
\* C33: every URL of checked_links but the root contains "kmart.com.au" and
\* none of "jobs.", "careers", "wcsstore", "inactive"; no task was ever
\* submitted for a link that the filter drops, and none has a record.
C33_VisitedPassedFilter ==
    /\ \A u \in checked_links \ {start_url} : u \in Hrefs \ FilteredOut
    /\ \A f \in DOMAIN futures :
          f > 1 => futures[f].url \in Hrefs \ FilteredOut
    /\ \A i \in 1..Len(AllRecords) :
          AllRecords[i].URL \in (Hrefs \ FilteredOut) \cup {start_url}
\* The fan crawled to its end: the page of A links to B, C and D and to
\* five URLs that the filter drops; the links of A were extracted and
\* checked_links holds A, B, C and D only.
C33_Witness ==
    /\ site.graph = "fan" /\ pc = "done"
    /\ Cardinality(PageHrefs("fan", A) \cap FilteredOut) = 5
    /\ futures[1].at = "return_119" /\ futures[1].links = {B, C, D}
    /\ checked_links = {A, B, C, D}

\* C32: every request a worker makes is followed by the rate-limit delay
\* in that same worker before the worker goes on, whatever the request
\* gave; and while a worker is in its delay, another worker that is about
\* to send a request can send it.
C32_DelayAfterEveryRequest ==
    /\ \A t \in Threads :
          \A i \in 1..Len(threads[t].log) :
              threads[t].log[i] = "GET" =>
                  IF i < Len(threads[t].log)
                  THEN threads[t].log[i + 1] = "sleep"
                  ELSE threads[t].at = "finally"
    /\ \A t, u \in Threads :
          (t # u /\ threads[t].at = "finally"
                 /\ threads[u].at = "check_link") => ENABLED CheckLinkGet(u)

====
